---- MODULE Spec2Model ----
(***************************************************************************)
(* A model of bot.py: a Telegram bot whose polling loop handles /start and *)
(* /stop and whose news thread (send_news_periodically) fetches four news  *)
(* listings, filters the items against last_news_ids, asks a completion    *)
(* API for a digest and an image and sends both to every subscribed chat.  *)
(*                                                                         *)
(* Strings that the code inspects are sequences of lexical tokens          *)
(* (<<"http","s","://","host","/","a">>), so that startswith and + are     *)
(* computed as the code computes them.  Texts whose content the code never *)
(* inspects (titles, article bodies) are plain strings; a digest is the    *)
(* sequence of the lengths of its "\n\n"-separated blocks after strip().   *)
(***************************************************************************)
EXTENDS Integers, Sequences, FiniteSets, TLC

\* ------------------------------------------------------------------ bounds
MaxChats == 2
MaxBlocks == 5

\* --------------------------------------------------------------- constants
MAX_TEXT_LEN == 3900
MaxArticles == 7
MaxNewsPerMsg == 4

\* Chat ids; 0 stands for "no chat".
Chats == 1..MaxChats

Fetchers == <<"destructoid", "pcgamer", "rockpapershotgun", "nvidia">>
Sources == {Fetchers[i] : i \in 1..Len(Fetchers)}

\* ----------------------------------------------------------------- strings
HTTP == <<"http">>

StartsWith(s, p) == Len(s) >= Len(p) /\ SubSeq(s, 1, Len(p)) = p

BaseOf(name) ==
    CASE name = "destructoid"      -> <<"http", "s", "://", "www.destructoid.com">>
      [] name = "pcgamer"          -> <<"http", "s", "://", "www.pcgamer.com">>
      [] name = "rockpapershotgun" -> <<"http", "s", "://", "www.rockpapershotgun.com">>
      [] name = "nvidia"           -> <<"http", "s", "://", "blogs.nvidia.com">>

\* href = a['href']; if not href.startswith("http"): href = base + href
ResolveHref(name, href) ==
    IF StartsWith(href, HTTP) THEN href ELSE BaseOf(name) \o href

\* ---------------------------------------------------------------- fixtures
\* An <article> of a listing page: its first <a href>, its first heading, and
\* what get_full_article_text returns for its URL ("" on any failure).
Article(hasLink, href, hasTitle, title, text) ==
    [hasLink |-> hasLink, href |-> href, hasTitle |-> hasTitle,
     title |-> title, text |-> text]

HrefAbs == <<"http", "s", "://", "news.example.org", "/", "x">>
HrefRoot == <<"/", "a">>
HrefPath == <<"a">>

ArtAbs == Article(TRUE, HrefAbs, TRUE, "X", "body of x")
ArtRoot == Article(TRUE, HrefRoot, TRUE, "A", "body of a")
ArtRootNoText == Article(TRUE, HrefRoot, TRUE, "A", "")
ArtPath == Article(TRUE, HrefPath, TRUE, "P", "")
ArtNoTitle == Article(TRUE, HrefRoot, FALSE, "", "")
ArtNoLink == Article(FALSE, <<>>, TRUE, "N", "")

\* A listing page as the fetcher sees it: the GET and the parse raised, or the
\* sequence of its <article> elements.
FailedPage == [ok |-> FALSE, articles |-> <<>>]
Page(arts) == [ok |-> TRUE, articles |-> arts]

LongListing == <<ArtNoLink, ArtRoot, ArtNoTitle, ArtAbs, ArtRoot, ArtNoLink, ArtNoTitle, ArtPath>>

PageOptions ==
    {FailedPage, Page(<<>>), Page(<<ArtRoot>>), Page(<<ArtPath, ArtNoTitle, ArtAbs>>),
     Page(LongListing)}

AllPages == [Sources -> PageOptions]

\* ---------------------------------------------------------------- fetchers
\* get_full_article_text: the article body, or "" when the request or the
\* parse fails or the container is missing.
get_full_article_text(art) == art.text

NewsItem(name, art) ==
    LET href == ResolveHref(name, art.href)
        body == get_full_article_text(art)
    IN  [id |-> href, title |-> art.title, url |-> href,
         full_text |-> IF body = "" THEN art.title ELSE body, source |-> name]

RECURSIVE ExtractNews(_, _)
\* for art in articles[:7]: skip unless it has both <a href> and a heading
ExtractNews(name, arts) ==
    IF arts = <<>> THEN <<>>
    ELSE LET art == Head(arts)
         IN  IF ~art.hasLink \/ ~art.hasTitle
             THEN ExtractNews(name, Tail(arts))
             ELSE <<NewsItem(name, art)>> \o ExtractNews(name, Tail(arts))

FirstArticles(arts) ==
    SubSeq(arts, 1, IF Len(arts) < MaxArticles THEN Len(arts) ELSE MaxArticles)

\* fetch_<site>_news: the four fetchers differ only in name, URL and base.  The
\* GET and the parse are inside the try, before any append, so a failure
\* returns the empty list; the fetcher itself never raises.
fetch_news(name, page) ==
    [raised |-> FALSE,
     news |-> IF page.ok THEN ExtractNews(name, FirstArticles(page.articles)) ELSE <<>>]

RECURSIVE FetchFrom(_, _, _)
FetchFrom(i, pages, result) ==
    IF i > Len(Fetchers) THEN result
    ELSE LET name == Fetchers[i]
             out == fetch_news(name, pages[name])
         IN  FetchFrom(i + 1, pages,
                       result @@ (name :> IF out.raised THEN <<>> ELSE out.news))

\* A fetch_all whose first failing source ends the loop.
AbortingFetchFrom(pages) ==
    LET bad == {i \in 1..Len(Fetchers) : ~pages[Fetchers[i]].ok}
        stop == IF bad = {} THEN Len(Fetchers) + 1
                ELSE CHOOSE i \in bad : \A j \in bad : i <= j
    IN  [name \in Sources |->
           LET i == CHOOSE k \in 1..Len(Fetchers) : Fetchers[k] = name
           IN  IF i < stop THEN fetch_news(name, pages[name]).news ELSE <<>>]

\* fetch_all_selected_news: every fetcher in order, each inside its own try.
fetch_all_selected_news(pages) == FetchFrom(1, pages, <<>>)

\* The listing pages the main loop's cycles meet: every site failing, one
\* article, and later a second article beside the first one, which is then
\* listed twice, while another site fails.
EmptySites == [s \in Sources |-> Page(<<>>)]
Worlds ==
    {[s \in Sources |-> FailedPage],
     [EmptySites EXCEPT !["destructoid"] = Page(<<ArtRoot>>)],
     [EmptySites EXCEPT !["destructoid"] = Page(<<ArtRoot, ArtRootNoText>>),
                        !["pcgamer"] = FailedPage,
                        !["rockpapershotgun"] = Page(<<ArtAbs>>)]}

RECURSIVE Flatten(_, _)
Flatten(i, news) ==
    IF i > Len(Fetchers) THEN <<>> ELSE news[Fetchers[i]] \o Flatten(i + 1, news)

Ids(items) == {items[i].id : i \in 1..Len(items)}

\* --------------------------------------------------------- completion API
\* What ask_gpt returns: the reply's content (here one long block, only
\* whitespace, or MaxBlocks paragraphs), an empty content, or an error string
\* (non-200 status, or an exception: one line either way).  Without OPENAI_API_KEY the Authorization header is
\* "Bearer None" and only the error strings are possible.
Reply(kind, blocks) == [kind |-> kind, blocks |-> blocks]

GptOutcomes(e) ==
    {Reply("error", <<60>>)}
    \cup (IF e.key
          THEN {Reply("content", <<4000>>), Reply("content", <<0>>),
                Reply("content", [i \in 1..MaxBlocks |-> 100]), Reply("empty", <<>>)}
          ELSE {})

\* if not digest: digest = "Не удалось получить дайджест от ChatGPT."
Fallback == Reply("fallback", <<40>>)
ask_gpt_or_fallback(r) == IF r.blocks = <<>> THEN Fallback ELSE r

\* generate_dalle_image returns a URL or raises RuntimeError.
DalleOutcomes(e) == IF e.key THEN {TRUE, FALSE} ELSE {FALSE}

\* ------------------------------------------------------------------ digest
RECURSIVE JoinLen(_)
\* len('\n\n'.join(blocks))
JoinLen(blocks) ==
    IF blocks = <<>> THEN 0
    ELSE IF Len(blocks) = 1 THEN blocks[1]
    ELSE blocks[1] + 2 + JoinLen(Tail(blocks))

NonEmptyBlock(b) == b > 0

RECURSIVE Chunks(_, _)
Chunks(blocks, n) ==
    IF blocks = <<>> THEN <<>>
    ELSE IF Len(blocks) <= n THEN <<JoinLen(blocks)>>
    ELSE <<JoinLen(SubSeq(blocks, 1, n))>> \o Chunks(SubSeq(blocks, n + 1, Len(blocks)), n)

\* split_digest_by_news: the lengths of the messages, at most n blocks each.
split_digest_by_news(blocks, n) == Chunks(SelectSeq(blocks, NonEmptyBlock), n)

\* parts = [msg[i:i+MAX_TEXT_LEN] ...] if len(msg) > MAX_TEXT_LEN else [msg]
PartsOf(len) ==
    IF len > MAX_TEXT_LEN THEN (len + MAX_TEXT_LEN - 1) \div MAX_TEXT_LEN ELSE 1

\* -------------------------------------------------------------- main loop
\* new_news: the fetched items, source by source, whose id is not yet sent.
NewItems(news, sent) ==
    LET flat == Flatten(1, news)
        Keep(item) == item.id \notin sent
    IN  SelectSeq(flat, Keep)

SkipOnlyWhenBoth(news, subscribers) == news = <<>> /\ subscribers = {}

\* if not new_news or not chat_ids: sleep and continue
SkipCycle(news, subscribers) == news = <<>> \/ subscribers = {}

LiveRemaining(snap, served, live) == live \ served

\* for chat_id in chat_ids.copy(): the chats still to be served
Remaining(snap, served, live) == snap \ served

CaughtExceptImage(step) == step \in {"send_image", "send_digest"}
CaughtExceptSends(step) == step \in {"dalle"}

\* Whether an exception raised in a step is caught inside the loop body.
Caught(step) == step \in {"dalle", "send_image", "send_digest"}

MarkedByAssignment(sent, news) == Ids(news)

\* last_news_ids.update(news['id'] for news in new_news)
Marked(sent, news) == sent \cup Ids(news)

AfterStopClearing(members, c) == IF c \in members THEN {} ELSE members

\* start: chat_ids.add(chat_id);  stop: remove it when it is a member
AfterStart(members, c) == members \cup {c}
AfterStop(members, c) == IF c \in members THEN members \ {c} ELSE members

\* main(): ApplicationBuilder().token(BOT_TOKEN).build().  The code does not
\* test the token; the library's build() raises InvalidToken for a missing one,
\* which ends main() before the thread is started.
BuildOutcomes(e) == IF e.token THEN {"built"} ELSE {"aborted"}

VARIABLES
    env,            \* which of the three environment variables are set
    mainpc,         \* main thread: main, built, started, polling, aborted
    chat_ids, last_news_ids,
    lastCmdOf,      \* observation: the last command handled for each chat
    pc,             \* news thread position
    pages, all_news, new_news, digest, img_url,
    snapshot, done, pubChat, pubIdx, pubPart,
    attempts,       \* observation: <<chat, k>> sends tried this cycle, k = 0 image
    firstFail,      \* observation: the first failed send of this cycle
    calls           \* observation: the outbound calls of this cycle

vars == <<env, mainpc, chat_ids, last_news_ids, lastCmdOf, pc, pages,
          all_news, new_news, digest, img_url, snapshot, done, pubChat, pubIdx,
          pubPart, attempts, firstFail, calls>>

NoDigest == Reply("none", <<>>)
NoNews == [s \in Sources |-> <<>>]
NoFail == <<0, 0>>

cycleVars == <<pages, all_news, new_news, digest, img_url, snapshot, done, pubChat,
               pubIdx, pubPart, attempts, firstFail, calls>>
botVars == <<chat_ids, lastCmdOf>>

\* The locals of an iteration that has not fetched yet.
LocalsReset ==
    /\ all_news = NoNews
    /\ new_news = <<>>
    /\ digest = NoDigest
    /\ img_url = FALSE
    /\ snapshot = {}
    /\ done = {}
    /\ pubChat = 0
    /\ pubIdx = 0
    /\ pubPart = 0
    /\ attempts = {}
    /\ firstFail = NoFail
    /\ calls = {}

InitCommon ==
    /\ mainpc = "main"
    /\ chat_ids = {}
    /\ last_news_ids = {}
    /\ lastCmdOf = [c \in Chats |-> "none"]
    /\ pc = "idle"
    /\ LocalsReset

Init ==
    /\ env \in [token : BOOLEAN, key : BOOLEAN, org : BOOLEAN]
    /\ pages = EmptySites
    /\ InitCommon

\* ------------------------------------------------------------ main thread
Build ==
    /\ mainpc = "main"
    /\ mainpc' \in BuildOutcomes(env)
    /\ UNCHANGED <<env, botVars, last_news_ids, pc, cycleVars>>

StartThread ==
    /\ mainpc = "built"
    /\ mainpc' = "started"
    /\ pc' = "fetch"
    /\ UNCHANGED <<env, botVars, last_news_ids, cycleVars>>

RunPolling ==
    /\ mainpc = "started"
    /\ mainpc' = "polling"
    /\ UNCHANGED <<env, botVars, last_news_ids, pc, cycleVars>>

\* ---------------------------------------------------------------- handlers
\* The polling loop dispatches one update at a time to the first handler that
\* matches it; the reply at the end of a handler changes nothing here.
start(c) ==
    /\ mainpc = "polling"
    /\ chat_ids' = AfterStart(chat_ids, c)
    /\ lastCmdOf' = [lastCmdOf EXCEPT ![c] = "start"]
    /\ UNCHANGED <<env, mainpc, last_news_ids, pc, cycleVars>>

stop(c) ==
    /\ mainpc = "polling"
    /\ chat_ids' = AfterStop(chat_ids, c)
    /\ lastCmdOf' = [lastCmdOf EXCEPT ![c] = "stop"]
    /\ UNCHANGED <<env, mainpc, last_news_ids, pc, cycleVars>>

echo(c) ==
    /\ mainpc = "polling"
    /\ UNCHANGED vars

\* ------------------------------------------------------------- news thread
Fetch ==
    /\ pc = "fetch"
    /\ \E w \in Worlds :
         /\ all_news' = fetch_all_selected_news(w)
         /\ new_news' = NewItems(fetch_all_selected_news(w), last_news_ids)
    /\ pc' = "check"
    /\ UNCHANGED <<env, mainpc, botVars, last_news_ids, pages, digest, img_url, snapshot, done,
                   pubChat, pubIdx, pubPart, attempts, firstFail, calls>>

Check ==
    /\ pc = "check"
    /\ pc' = IF SkipCycle(new_news, chat_ids) THEN "sleep" ELSE "digest"
    /\ UNCHANGED <<env, mainpc, botVars, last_news_ids, cycleVars>>

Digest ==
    /\ pc = "digest"
    /\ \E r \in GptOutcomes(env) : digest' = ask_gpt_or_fallback(r)
    /\ calls' = calls \cup {"ask_gpt"}
    /\ pc' = "image"
    /\ UNCHANGED <<env, mainpc, botVars, last_news_ids, pages, all_news, new_news, img_url,
                   snapshot, done, pubChat, pubIdx, pubPart, attempts, firstFail>>

Image ==
    /\ pc = "image"
    /\ \E ok \in DalleOutcomes(env) :
         /\ img_url' = ok
         /\ pc' = IF ok \/ Caught("dalle") THEN "snapshot" ELSE "dead"
    /\ calls' = calls \cup {"ask_gpt", "generate_dalle_image"}
    /\ UNCHANGED <<env, mainpc, botVars, last_news_ids, pages, all_news, new_news, digest,
                   snapshot, done, pubChat, pubIdx, pubPart, attempts, firstFail>>

Snapshot ==
    /\ pc = "snapshot"
    /\ snapshot' = chat_ids
    /\ pc' = "for_chat"
    /\ UNCHANGED <<env, mainpc, botVars, last_news_ids, pages, all_news, new_news, digest,
                   img_url, done, pubChat, pubIdx, pubPart, attempts, firstFail, calls>>

ForChat ==
    /\ pc = "for_chat"
    /\ IF Remaining(snapshot, done, chat_ids) = {}
       THEN pc' = "mark" /\ pubChat' = 0
       ELSE \E c \in Remaining(snapshot, done, chat_ids) :
              pubChat' = c /\ pc' = "send_image"
    /\ UNCHANGED <<env, mainpc, botVars, last_news_ids, pages, all_news, new_news, digest,
                   img_url, snapshot, done, pubIdx, pubPart, attempts, firstFail, calls>>

Msgs == split_digest_by_news(digest.blocks, MaxNewsPerMsg)

SendImage ==
    /\ pc = "send_image"
    /\ attempts' = attempts \cup {<<pubChat, 0>>}
    /\ calls' = calls \cup {IF img_url THEN "send_photo" ELSE "send_message"}
    /\ \E ok \in BOOLEAN :
         /\ firstFail' = IF ~ok /\ firstFail = NoFail THEN <<pubChat, 0>> ELSE firstFail
         /\ IF ~ok /\ ~Caught("send_image")
            THEN pc' = "dead" /\ UNCHANGED <<done, pubIdx, pubPart>>
            ELSE IF Msgs = <<>>
            THEN pc' = "for_chat" /\ done' = done \cup {pubChat}
                 /\ UNCHANGED <<pubIdx, pubPart>>
            ELSE pc' = "send_digest" /\ pubIdx' = 1 /\ pubPart' = 1 /\ UNCHANGED done
    /\ UNCHANGED <<env, mainpc, botVars, last_news_ids, pages, all_news, new_news, digest,
                   img_url, snapshot, pubChat>>

SendPart ==
    /\ pc = "send_digest"
    /\ attempts' = attempts \cup {<<pubChat, pubIdx>>}
    /\ calls' = calls \cup {"send_message"}
    /\ \E ok \in BOOLEAN :
         /\ firstFail' = IF ~ok /\ firstFail = NoFail THEN <<pubChat, pubIdx>> ELSE firstFail
         /\ IF ~ok /\ ~Caught("send_digest")
            THEN pc' = "dead" /\ UNCHANGED <<done, pubIdx, pubPart>>
            ELSE IF ok /\ pubPart < PartsOf(Msgs[pubIdx])
            THEN pubPart' = pubPart + 1 /\ UNCHANGED <<pc, done, pubIdx>>
            ELSE IF pubIdx < Len(Msgs)
            THEN pubIdx' = pubIdx + 1 /\ pubPart' = 1 /\ UNCHANGED <<pc, done>>
            ELSE pc' = "for_chat" /\ done' = done \cup {pubChat}
                 /\ pubIdx' = 0 /\ pubPart' = 0
    /\ UNCHANGED <<env, mainpc, botVars, last_news_ids, pages, all_news, new_news, digest,
                   img_url, snapshot, pubChat>>

Mark ==
    /\ pc = "mark"
    /\ last_news_ids' = Marked(last_news_ids, new_news)
    /\ pc' = "sleep"
    /\ UNCHANGED <<env, mainpc, botVars, cycleVars>>

\* time.sleep(CHECK_INTERVAL), then the next iteration with fresh locals
Sleep ==
    /\ pc = "sleep"
    /\ pc' = "fetch"
    /\ all_news' = NoNews
    /\ new_news' = <<>>
    /\ digest' = NoDigest
    /\ img_url' = FALSE
    /\ snapshot' = {}
    /\ done' = {}
    /\ pubChat' = 0
    /\ pubIdx' = 0
    /\ pubPart' = 0
    /\ attempts' = {}
    /\ firstFail' = NoFail
    /\ calls' = {}
    /\ UNCHANGED <<env, mainpc, botVars, last_news_ids, pages>>

NewsThread ==
    \/ Fetch \/ Check \/ Digest \/ Image \/ Snapshot \/ ForChat
    \/ SendImage \/ SendPart \/ Mark \/ Sleep

Next ==
    \/ Build \/ StartThread \/ RunPolling
    \/ \E c \in Chats : start(c)
    \/ \E c \in Chats : stop(c)
    \/ \E c \in Chats : echo(c)
    \/ NewsThread

Spec == Init /\ [][Next]_vars

\* The news thread is a thread of its own: it is scheduled again and again, and
\* each of its steps ends (every request has a timeout, every sleep is finite).
FairSpec == Spec /\ WF_vars(NewsThread)

\* ----------------------------------------------------- fetch_all in isolation
InitFetch ==
    /\ env = [token |-> TRUE, key |-> TRUE, org |-> TRUE]
    /\ InitCommon
    /\ pages \in AllPages

ApplyFetch ==
    /\ pc = "idle"
    /\ all_news' = fetch_all_selected_news(pages)
    /\ pc' = "fetched"
    /\ UNCHANGED <<env, mainpc, botVars, last_news_ids, pages, new_news, digest, img_url,
                   snapshot, done, pubChat, pubIdx, pubPart, attempts, firstFail, calls>>

SpecFetch == InitFetch /\ [][ApplyFetch]_vars

\* ================================================================== claims
HasBoth(art) == art.hasLink /\ art.hasTitle
ValidArticles(page) == SelectSeq(FirstArticles(page.articles), HasBoth)
Publishing == pc \in {"for_chat", "send_image", "send_digest", "mark"}

\* A cycle whose digest is the completion's text and has been sent, every send
\* so far without failure.
DigestSent ==
    /\ Publishing
    /\ digest.kind = "content"
    /\ firstFail = NoFail
    /\ \E a \in attempts : a[2] >= 1

\* C1: the same link is never emitted twice within a process lifetime: of the
\* items of a digest that is sent none has a link of the sent-set (the links of
\* every earlier digest), and no two have the same link.
C1_NeverEmittedTwice ==
    DigestSent =>
      \A i \in 1..Len(new_news) :
        /\ new_news[i].id \notin last_news_ids
        /\ \A j \in 1..Len(new_news) : j # i => new_news[j].id # new_news[i].id

\* The part of C1 that the filter against last_news_ids does give: a link of
\* the sent-set is in no later digest.
SentNotReEmitted ==
    Publishing => \A i \in 1..Len(new_news) : new_news[i].id \notin last_news_ids

\* C2: in a cycle with zero newly discovered items there is no call of ask_gpt,
\* generate_dalle_image, send_photo or send_message, whoever is subscribed.
C2_NoCallsWithoutNews == new_news = <<>> => calls = {}

C2_Witness ==
    /\ pc = "sleep"
    /\ new_news = <<>>
    /\ Flatten(1, all_news) # <<>>
    /\ chat_ids # {}
    /\ calls = {}

\* C3: whichever sources fail, fetch_all_selected_news has an entry for each of
\* the four sources: the empty list for a failed one, and for every other one
\* the items of its listed articles, in order.
C3_FailureSkipsOnlyThatSource ==
    pc = "fetched" =>
      /\ DOMAIN all_news = Sources
      /\ \A s \in Sources :
           IF ~pages[s].ok THEN all_news[s] = <<>>
           ELSE /\ Len(all_news[s]) = Len(ValidArticles(pages[s]))
                /\ \A k \in 1..Len(all_news[s]) :
                     /\ all_news[s][k].title = ValidArticles(pages[s])[k].title
                     /\ all_news[s][k].source = s

C3_Witness ==
    /\ pc = "fetched"
    /\ ~pages["destructoid"].ok
    /\ ~pages["rockpapershotgun"].ok
    /\ Len(all_news["pcgamer"]) = 2
    /\ Len(all_news["nvidia"]) = 1

\* C4: if a required environment variable is absent the process aborts at
\* startup: it never polls and never starts a poll cycle.
C4_AbortsWhenEnvAbsent ==
    (~env.token \/ ~env.key \/ ~env.org) => (mainpc # "polling" /\ pc = "idle")

\* C5: no failure of a step ends send_news_periodically: the thread is never
\* dead and, once started, it is again and again in the sleep that ends a cycle
\* and again and again past it, in a further cycle.
C5_LoopNeverEnds ==
    /\ [](pc # "dead")
    /\ []<>(pc \in {"idle", "sleep"})
    /\ []<>(pc # "sleep")

C5_Witness ==
    /\ pc = "sleep"
    /\ all_news["pcgamer"] = <<>> /\ Len(all_news["destructoid"]) = 2
    /\ last_news_ids # {}
    /\ digest.kind = "error"
    /\ ~img_url
    /\ firstFail # NoFail
    /\ "send_message" \in calls

\* C6: a chat is a member of chat_ids exactly when the last command handled for
\* it is /start; so /start adds it, /stop removes it, a repeated command changes
\* nothing, and a command of one chat never changes another chat's membership.
C6_Membership == \A c \in Chats : (c \in chat_ids) <=> (lastCmdOf[c] = "start")

C6_Witness ==
    /\ lastCmdOf[1] = "stop"
    /\ lastCmdOf[2] = "start"
    /\ chat_ids = {2}

\* The href of RFC 3986 resolved against a base with an empty path.
IsAbsolute(href) ==
    StartsWith(href, <<"http", "s", "://">>) \/ StartsWith(href, <<"http", "://">>)
WellResolved(name, href) ==
    IF IsAbsolute(href) THEN href
    ELSE IF href # <<>> /\ Head(href) = "/" THEN BaseOf(name) \o href
    ELSE BaseOf(name) \o <<"/">> \o href

\* C7: the extracted (title, URL) pairs are those of the first listed articles
\* that have a link and a heading, each URL the href correctly resolved against
\* the source's base: absolute kept, relative (with or without a leading slash)
\* a well-formed URL under the base.
C7_UrlsResolved ==
    pc = "fetched" =>
      \A s \in Sources :
        pages[s].ok =>
          /\ Len(all_news[s]) = Len(ValidArticles(pages[s]))
          /\ \A k \in 1..Len(all_news[s]) :
               /\ all_news[s][k].title = ValidArticles(pages[s])[k].title
               /\ all_news[s][k].url = WellResolved(s, ValidArticles(pages[s])[k].href)

\* C8: a failed send never stops publishing: the thread goes on, every chat that
\* has been served got an attempt for its image and for every digest message,
\* and when the loop ends every chat of the snapshot has been served.
C8_FailedSendDoesNotStop ==
    /\ firstFail # NoFail => pc \in {"for_chat", "send_image", "send_digest", "mark", "sleep"}
    /\ \A c \in done : \A k \in 0..Len(Msgs) : <<c, k>> \in attempts
    /\ pc = "mark" => done = snapshot

C8_Witness ==
    /\ pc = "send_image"
    /\ pubChat = 2
    /\ firstFail = <<1, 0>>
    /\ Len(Msgs) = 2
    /\ {<<1, 0>>, <<1, 1>>, <<1, 2>>} \subseteq attempts

\* C9: last_news_ids never loses an element and changes only in the step that
\* ends a cycle that passed the check with a new item and a subscriber; there it
\* becomes the old set united with the ids of that cycle's new items; a cycle
\* that is skipped leaves it unchanged.
C9_SentSetGrowsAtCycleEnd ==
    [][/\ last_news_ids \subseteq last_news_ids'
       /\ (pc = "check" /\ pc' = "digest") => (new_news # <<>> /\ chat_ids # {})
       /\ (pc = "check" /\ pc' = "sleep") => last_news_ids' = last_news_ids
       /\ (pc = "mark" /\ pc' = "sleep") =>
            (new_news # <<>> /\ last_news_ids' = last_news_ids \cup Ids(new_news))
       /\ ~(pc = "mark" /\ pc' = "sleep") => last_news_ids' = last_news_ids]_vars

C9_Witness ==
    /\ pc = "sleep"
    /\ new_news # <<>>
    /\ digest.kind = "error"
    /\ ~img_url
    /\ firstFail # NoFail
    /\ Ids(new_news) \subseteq last_news_ids
    /\ Cardinality(last_news_ids) > Cardinality(Ids(new_news))

\* C10: whatever /start and /stop do meanwhile, the chats a cycle sends to are
\* those of the copy of chat_ids taken when the publish loop starts: every send
\* goes to a chat of the copy, the copy does not change while publishing, at the
\* end of the loop every chat of the copy has been sent to, the thread survives,
\* and the copy holds only chats whose last command is /start.
C10_RecipientsAreSnapshot ==
    /\ [](pc # "dead")
    /\ [](\A a \in attempts : a[1] \in snapshot)
    /\ [](pc = "mark" => {a[1] : a \in attempts} = snapshot)
    /\ [][/\ (pc = "snapshot" /\ pc' # pc) =>
               (snapshot' = chat_ids /\ \A c \in snapshot' : lastCmdOf[c] = "start")
          /\ (Publishing /\ pc' # "sleep") => snapshot' = snapshot]_vars

C10_Witness ==
    /\ pc = "mark"
    /\ snapshot = {1, 2}
    /\ chat_ids = {}
    /\ {a[1] : a \in attempts} = {1, 2}
====
